---- MODULE Spec2Model ----
(***************************************************************************)
(* Model of map-oxidize (src/src/main.rs): a word count computed by a map  *)
(* pool and a reduce pool of tokio tasks over shared, mutex-protected work *)
(* lists, with intermediate records kept as files.                         *)
(*                                                                         *)
(* Text is modelled as a sequence of one-character strings, so that        *)
(* splitting, formatting and parsing are computed as the code computes     *)
(* them.  A HashMap is a function whose domain is its key set; its         *)
(* iteration order is a nondeterministic choice.  A write is taken to have *)
(* reached the file when write_all returns.                                *)
(***************************************************************************)
EXTENDS Integers, Sequences, FiniteSets, TLC

\* ---- bounds of the model ----
MaxLines == 2
MaxChunks == 2
MaxMapWorkers == 2
MaxReduceWorkers == 2
MaxFnLines == 3
MaxRecordLines == 2

\* The lines an input file is made of (without terminator).
LineSet == { <<"a", " ", "b">>, <<"B", " ", "c">> }

\* What final_result.txt may be before the run: <<>> when there is no such
\* file, <<text>> when it exists with that text.
OldFinalFiles == { <<>>, << <<"z", "z", " ", "7", "\n", "y", " ", "1", "\n">> >> }

\* ---- text helpers ----

IsWhitespace(c) == c \in {" ", "\n", "\t", "\r"}

RECURSIVE SplitFrom(_, _, _, _)
SplitFrom(text, i, cur, acc) ==
    IF i > Len(text)
    THEN IF cur = <<>> THEN acc ELSE Append(acc, cur)
    ELSE IF IsWhitespace(text[i])
         THEN SplitFrom(text, i + 1, <<>>, IF cur = <<>> THEN acc ELSE Append(acc, cur))
         ELSE SplitFrom(text, i + 1, Append(cur, text[i]), acc)

\* str::split_whitespace: the maximal runs of non-whitespace characters.
split_whitespace(text) == SplitFrom(text, 1, <<>>, <<>>)

StripCr(line) ==
    IF Len(line) > 0 /\ line[Len(line)] = "\r" THEN SubSeq(line, 1, Len(line) - 1) ELSE line

RECURSIVE LinesFrom(_, _, _, _)
LinesFrom(text, i, cur, acc) ==
    IF i > Len(text)
    THEN IF cur = <<>> THEN acc ELSE Append(acc, cur)
    ELSE IF text[i] = "\n"
         THEN LinesFrom(text, i + 1, <<>>, Append(acc, StripCr(cur)))
         ELSE LinesFrom(text, i + 1, Append(cur, text[i]), acc)

\* BufReader::lines: the lines of a text, terminators removed.
Lines(text) == LinesFrom(text, 1, <<>>, <<>>)

LowerChar(c) ==
    CASE c = "A" -> "a"
      [] c = "B" -> "b"
      [] c = "C" -> "c"
      [] OTHER -> c

to_lowercase(word) == [i \in 1..Len(word) |-> LowerChar(word[i])]

Digits == <<"0", "1", "2", "3", "4", "5", "6", "7", "8", "9">>

RECURSIVE FormatUsize(_)
\* format!("{}", n) of a usize: its decimal digits.
FormatUsize(n) ==
    IF n < 10 THEN <<Digits[n + 1]>> ELSE Append(FormatUsize(n \div 10), Digits[(n % 10) + 1])

DigitValue(c) == CHOOSE d \in 0..9 : Digits[d + 1] = c

IsDigit(c) == \E d \in 0..9 : Digits[d + 1] = c

\* An Option or a Result<_, E> is a sequence: <<>> for None / Err, <<v>> for Some(v) / Ok(v).
RECURSIVE ParseDigits(_, _, _)
ParseDigits(s, i, acc) ==
    IF i > Len(s) THEN <<acc>>
    ELSE IF IsDigit(s[i]) THEN ParseDigits(s, i + 1, acc * 10 + DigitValue(s[i]))
         ELSE <<>>

\* str::parse::<usize>: decimal digits after an optional "+"; an error otherwise.
ParseUsize(s) ==
    LET body == IF Len(s) > 0 /\ s[1] = "+" THEN Tail(s) ELSE s
    IN  IF body = <<>> THEN <<>> ELSE ParseDigits(body, 1, 0)

RECURSIVE Flatten(_)
Flatten(ss) == IF ss = <<>> THEN <<>> ELSE Head(ss) \o Flatten(Tail(ss))

\* ---- HashMap<String, usize> ----

EmptyMap == [w \in {} |-> 0]

Get(m, w) == IF w \in DOMAIN m THEN m[w] ELSE 0

\* *m.entry(w).or_insert(0) += n
AddCount(m, w, n) == [x \in DOMAIN m \cup {w} |-> IF x = w THEN Get(m, w) + n ELSE m[x]]

\* m.insert(w, n)
Insert(m, w, n) == [x \in DOMAIN m \cup {w} |-> IF x = w THEN n ELSE m[x]]

\* The orders in which a map with key set S may be iterated.
Orderings(S) ==
    { o \in [1..Cardinality(S) -> S] : \A i, j \in 1..Cardinality(S) : i # j => o[i] # o[j] }

RECURSIVE CountFrom(_, _, _)
CountFrom(words, i, m) ==
    IF i > Len(words) THEN m
    ELSE CountFrom(words, i + 1, AddCount(m, to_lowercase(words[i]), 1))

count_words(text) == CountFrom(split_whitespace(text), 1, EmptyMap)

RecordLineMutant(word, count) == word \o FormatUsize(count) \o <<"\n">>

\* The line "<word> <count>\n" of a record or of the final artifact.
RecordLine(word, count) == word \o <<" ">> \o FormatUsize(count) \o <<"\n">>

\* The first k lines written when the map is iterated in the given order.
RecordText(word_counts, order, k) ==
    Flatten([i \in 1..k |-> RecordLine(order[i], word_counts[order[i]])])

\* ---- the functions of main.rs that compute on text ----

RECURSIVE SplitLoop(_, _, _, _, _)
\* A loop that assigns the line to the partition instead of appending it.
SplitLoopMutant(lines, i, chunk_index, chunks, n) ==
    IF i > Len(lines) THEN chunks
    ELSE SplitLoop(lines, i + 1, (chunk_index + 1) % n,
                   [chunks EXCEPT ![chunk_index + 1] = lines[i] \o <<"\n">>], n)

SplitLoop(lines, i, chunk_index, chunks, n) ==
    IF i > Len(lines) THEN chunks
    ELSE SplitLoop(lines, i + 1, (chunk_index + 1) % n,
                   [chunks EXCEPT ![chunk_index + 1] = @ \o lines[i] \o <<"\n">>], n)

\* split_file: chunks[k] of the code is element k + 1 of the sequence.
split_file(text, n) == SplitLoop(Lines(text), 1, 0, [k \in 1..n |-> <<>>], n)

ResultNameMutant(worker_id) ==
    <<"m", "a", "p", "_">> \o FormatUsize(worker_id + 1) \o <<".", "t", "x", "t">>

\* format!("map_{}.txt", worker_id)
ResultName(worker_id) ==
    <<"m", "a", "p", "_">> \o FormatUsize(worker_id) \o <<".", "t", "x", "t">>

RECURSIVE ReadLoop(_, _, _)
\* A loop that takes the first two fields of a line with more than two.
ReadLoopMutant(lines, i, word_counts) ==
    IF i > Len(lines) THEN word_counts
    ELSE LET parts == split_whitespace(lines[i])
             count == IF Len(parts) >= 2 THEN ParseUsize(parts[2]) ELSE <<>>
         IN  ReadLoop(lines, i + 1,
                      IF count # <<>> THEN Insert(word_counts, parts[1], count[1])
                      ELSE word_counts)

ReadLoop(lines, i, word_counts) ==
    IF i > Len(lines) THEN word_counts
    ELSE LET parts == split_whitespace(lines[i])
             count == IF Len(parts) = 2 THEN ParseUsize(parts[2]) ELSE <<>>
         IN  ReadLoop(lines, i + 1,
                      IF count # <<>> THEN Insert(word_counts, parts[1], count[1])
                      ELSE word_counts)

\* read_map_result, once the file is open: the map parsed from its text.
read_map_result(text) == ReadLoop(Lines(text), 1, EmptyMap)

MergeEntryMutant(final, word, count) == Insert(final, word, count)

\* *final_result.entry(word).or_insert(0) += count
MergeEntry(final, word, count) == AddCount(final, word, count)

RECURSIVE MergeLoop(_, _, _)
MergeLoop(final, word_counts, keys) ==
    IF keys = {} THEN final
    ELSE LET word == CHOOSE x \in keys : TRUE
         IN  MergeLoop(MergeEntry(final, word, word_counts[word]), word_counts, keys \ {word})

\* The loop of reduce_phase that merges one record into the aggregate.
Merge(final, word_counts) == MergeLoop(final, word_counts, DOMAIN word_counts)

\* ---- files ----

NoFiles == [name \in {} |-> <<>>]

\* A file opened for appending instead of being truncated.
FileCreateMutant(files, name, text) ==
    [x \in DOMAIN files \cup {name} |->
        IF x # name THEN files[x]
        ELSE IF name \in DOMAIN files THEN files[name] \o text ELSE text]

\* File::create followed by the writes of text: the file holds text alone.
FileCreate(files, name, text) ==
    [x \in DOMAIN files \cup {name} |-> IF x = name THEN text ELSE files[x]]

FileRemove(files, name) == [x \in DOMAIN files \ {name} |-> files[x]]

\* Writing text from offset 0 into a file opened with write(true).create(true):
\* what the file held beyond the written bytes stays.
Overwrite(old, text) ==
    IF old = <<>> THEN <<text>>
    ELSE <<text \o SubSeq(old[1], Len(text) + 1, Len(old[1]))>>

\* write_map_result: the outcomes <<result, files after it>>.  File::create
\* may fail; a write_all may fail after any number of lines.
WriteMapOutcomes(files, file_name, word_counts) ==
    LET n == Cardinality(DOMAIN word_counts)
    IN  {<<"Err", files>>}
        \cup { <<IF k = n THEN "Ok" ELSE "Err",
                 FileCreate(files, file_name, RecordText(word_counts, o, k))>> :
                 o \in Orderings(DOMAIN word_counts), k \in 0..n }

\* write_final_result: the outcomes <<result, final_result.txt after it>>.
WriteFinalOutcomes(old, word_counts) ==
    LET n == Cardinality(DOMAIN word_counts)
    IN  {<<"Err", old>>}
        \cup { <<IF k = n THEN "Ok" ELSE "Err",
                 Overwrite(old, RecordText(word_counts, o, k))>> :
                 o \in Orderings(DOMAIN word_counts), k \in 0..n }

\* remove_file: the outcomes <<result, files after it>>.
RemoveOutcomes(files, name) ==
    IF name \in DOMAIN files
    THEN {<<"Ok", FileRemove(files, name)>>, <<"Err", files>>}
    ELSE {<<"NotFound", files>>}

\* ---- state ----

VARIABLES
    input,               \* text of the input file
    num_chunks,          \* main: num_chunks
    num_map_workers,     \* main: num_map_workers
    num_reduce_workers,  \* main: num_reduce_workers
    pc,                  \* where main is
    idx,                 \* position of main in the loop it is running
    ran,                 \* the functions main has called so far
    chunks,              \* main: chunks
    map_results,         \* main: map_results
    final_result,        \* main: final_result
    chunk_queue,         \* map_phase: chunk_queue, as positions into chunks
    results,             \* map_phase: results
    map_pc,              \* where each map worker is
    map_chunk,           \* map worker: chunk, <<>> or <<position>>
    chunk_queue_lock,    \* holders of the mutex of chunk_queue
    results_lock,        \* holders of the mutex of results
    popped_by,           \* for each chunk, the map workers that popped it
    written_by,          \* for each map worker, the chunks it wrote a record of, in order
    result_queue,        \* reduce_phase: result_queue
    aggregate,           \* reduce_phase: final_result, the shared map
    red_pc,              \* where each reduce worker is
    red_file,            \* reduce worker: result_file, <<>> or <<name>>
    red_counts,          \* reduce worker: word_counts
    result_queue_lock,   \* holders of the mutex of result_queue
    aggregate_lock,      \* holders of the mutex of the shared map
    store,               \* the intermediate record files, name -> text
    final_file,          \* final_result.txt
    removals,            \* the names cleanup has called remove_file on
    eprinted             \* the deletion errors cleanup has printed

main_vars == <<input, num_chunks, num_map_workers, num_reduce_workers, pc, idx, ran,
               chunks, map_results, final_result>>
map_vars == <<chunk_queue, results, map_pc, map_chunk, chunk_queue_lock, results_lock,
              popped_by, written_by>>
red_vars == <<result_queue, aggregate, red_pc, red_file, red_counts, result_queue_lock,
              aggregate_lock>>
file_vars == <<store, final_file, removals, eprinted>>
vars == <<main_vars, map_vars, red_vars, file_vars>>

MapWorkers == 0..(num_map_workers - 1)
ReduceWorkers == 0..(num_reduce_workers - 1)

RECURSIVE InputsOf(_)
\* The texts of n lines of LineSet, each with its terminator.
InputsOf(n) ==
    IF n = 0 THEN {<<>>}
    ELSE { t \o l \o <<"\n">> : t \in InputsOf(n - 1), l \in LineSet }

Inputs == UNION { InputsOf(n) : n \in 0..MaxLines }

Init ==
    /\ input \in Inputs
    /\ num_chunks \in 1..MaxChunks
    /\ num_map_workers \in 1..MaxMapWorkers
    /\ num_reduce_workers \in 1..MaxReduceWorkers
    /\ pc = "split_file"
    /\ idx = 0
    /\ ran = {}
    /\ chunks = <<>>
    /\ map_results = <<>>
    /\ final_result = EmptyMap
    /\ chunk_queue = <<>>
    /\ results = <<>>
    /\ map_pc = [w \in 0..(num_map_workers - 1) |-> "unspawned"]
    /\ map_chunk = [w \in 0..(num_map_workers - 1) |-> <<>>]
    /\ chunk_queue_lock = {}
    /\ results_lock = {}
    /\ popped_by = <<>>
    /\ written_by = [w \in 0..(num_map_workers - 1) |-> <<>>]
    /\ result_queue = <<>>
    /\ aggregate = EmptyMap
    /\ red_pc = [r \in 0..(num_reduce_workers - 1) |-> "unspawned"]
    /\ red_file = [r \in 0..(num_reduce_workers - 1) |-> <<>>]
    /\ red_counts = [r \in 0..(num_reduce_workers - 1) |-> EmptyMap]
    /\ result_queue_lock = {}
    /\ aggregate_lock = {}
    /\ store = NoFiles
    /\ final_file \in OldFinalFiles
    /\ removals = <<>>
    /\ eprinted = <<>>

\* The process is alive: main has neither returned nor panicked.
Alive == pc \notin {"exit_ok", "exit_err", "panicked"}

\* ---- main, up to the map phase ----

\* main.rs:16 and 36-51.  Opening or reading the input may fail.
SplitFile ==
    /\ pc = "split_file"
    /\ ran' = ran \cup {"split_file"}
    /\ \/ /\ chunks' = split_file(input, num_chunks)
          /\ pc' = "map_phase"
       \/ /\ pc' = "split_file_err"
          /\ UNCHANGED chunks
    /\ UNCHANGED <<input, num_chunks, num_map_workers, num_reduce_workers, idx,
                   map_results, final_result>>
    /\ UNCHANGED <<map_vars, red_vars, file_vars>>

\* main.rs:19 and 54-57: map_phase is entered, its shared state is built.
MapPhaseEnter ==
    /\ pc = "map_phase"
    /\ ran' = ran \cup {"map_phase"}
    /\ chunk_queue' = [k \in 1..Len(chunks) |-> k]
    /\ results' = <<>>
    /\ popped_by' = [k \in 1..Len(chunks) |-> <<>>]
    /\ idx' = 0
    /\ pc' = "map_spawn"
    /\ UNCHANGED <<input, num_chunks, num_map_workers, num_reduce_workers, chunks,
                   map_results, final_result>>
    /\ UNCHANGED <<map_pc, map_chunk, chunk_queue_lock, results_lock, written_by>>
    /\ UNCHANGED <<red_vars, file_vars>>

\* main.rs:59-84: one iteration of the loop that spawns the map workers.
MapSpawn ==
    /\ pc = "map_spawn"
    /\ IF idx < num_map_workers
       THEN /\ map_pc' = [map_pc EXCEPT ![idx] = "lock_queue"]
            /\ idx' = idx + 1
            /\ pc' = pc
       ELSE /\ idx' = 0
            /\ pc' = "map_join"
            /\ UNCHANGED map_pc
    /\ UNCHANGED <<input, num_chunks, num_map_workers, num_reduce_workers, ran, chunks,
                   map_results, final_result>>
    /\ UNCHANGED <<chunk_queue, results, map_chunk, chunk_queue_lock, results_lock,
                   popped_by, written_by>>
    /\ UNCHANGED <<red_vars, file_vars>>

\* ---- the map workers (main.rs:63-81) ----

VecPopRestMutant(v) == v

\* What Vec::pop leaves of a vector: all but its last element.
VecPopRest(v) == SubSeq(v, 1, Len(v) - 1)

\* main.rs:66: chunk_queue.lock().await
MapLockQueue(w) ==
    /\ Alive
    /\ map_pc[w] = "lock_queue"
    /\ chunk_queue_lock = {}
    /\ chunk_queue_lock' = {w}
    /\ map_pc' = [map_pc EXCEPT ![w] = "pop"]
    /\ UNCHANGED <<chunk_queue, results, map_chunk, results_lock, popped_by, written_by>>
    /\ UNCHANGED <<main_vars, red_vars, file_vars>>

\* A worker that keeps the guard of the queue while it handles the chunk.
MapPopMutant(w) ==
    /\ Alive
    /\ map_pc[w] = "pop"
    /\ IF chunk_queue = <<>>
       THEN /\ map_chunk' = [map_chunk EXCEPT ![w] = <<>>]
            /\ map_pc' = [map_pc EXCEPT ![w] = "done"]
            /\ chunk_queue_lock' = chunk_queue_lock \ {w}
            /\ UNCHANGED <<chunk_queue, popped_by>>
       ELSE /\ map_chunk' = [map_chunk EXCEPT ![w] = <<chunk_queue[Len(chunk_queue)]>>]
            /\ chunk_queue' = VecPopRest(chunk_queue)
            /\ popped_by' = [popped_by EXCEPT ![chunk_queue[Len(chunk_queue)]] = Append(@, w)]
            /\ map_pc' = [map_pc EXCEPT ![w] = "write"]
            /\ UNCHANGED chunk_queue_lock
    /\ UNCHANGED <<results, results_lock, written_by>>
    /\ UNCHANGED <<main_vars, red_vars, file_vars>>

\* main.rs:67-70, 77-80: queue.pop(), the guard is dropped; on None the
\* worker leaves its loop and returns Ok(()).
MapPop(w) ==
    /\ Alive
    /\ map_pc[w] = "pop"
    /\ chunk_queue_lock' = chunk_queue_lock \ {w}
    /\ IF chunk_queue = <<>>
       THEN /\ map_chunk' = [map_chunk EXCEPT ![w] = <<>>]
            /\ map_pc' = [map_pc EXCEPT ![w] = "done"]
            /\ UNCHANGED <<chunk_queue, popped_by>>
       ELSE /\ map_chunk' = [map_chunk EXCEPT ![w] = <<chunk_queue[Len(chunk_queue)]>>]
            /\ chunk_queue' = VecPopRest(chunk_queue)
            /\ popped_by' = [popped_by EXCEPT ![chunk_queue[Len(chunk_queue)]] = Append(@, w)]
            /\ map_pc' = [map_pc EXCEPT ![w] = "write"]
    /\ UNCHANGED <<results, results_lock, written_by>>
    /\ UNCHANGED <<main_vars, red_vars, file_vars>>

\* main.rs:72-74: count_words, the record name, write_map_result(..).await?
\* The first disjunct is File::create failing, the cheapest outcome of
\* WriteMapOutcomes, listed first so that enabledness is decided by it.
MapWrite(w) ==
    /\ Alive
    /\ map_pc[w] = "write"
    /\ \/ /\ map_pc' = [map_pc EXCEPT ![w] = "failed"]
          /\ UNCHANGED <<store, written_by>>
       \/ LET word_counts == count_words(chunks[map_chunk[w][1]])
              result == ResultName(w)
          IN  \E out \in WriteMapOutcomes(store, result, word_counts) :
                  /\ store' = out[2]
                  /\ map_pc' = [map_pc EXCEPT ![w] = IF out[1] = "Ok" THEN "lock_results"
                                                     ELSE "failed"]
                  /\ written_by' = IF out[1] = "Ok"
                                   THEN [written_by EXCEPT ![w] = Append(@, map_chunk[w][1])]
                                   ELSE written_by
    /\ UNCHANGED <<chunk_queue, results, map_chunk, chunk_queue_lock, results_lock,
                   popped_by>>
    /\ UNCHANGED <<final_file, removals, eprinted>>
    /\ UNCHANGED <<main_vars, red_vars>>

\* main.rs:75: results.lock().await
MapLockResults(w) ==
    /\ Alive
    /\ map_pc[w] = "lock_results"
    /\ results_lock = {}
    /\ results_lock' = {w}
    /\ map_pc' = [map_pc EXCEPT ![w] = "push"]
    /\ UNCHANGED <<chunk_queue, results, map_chunk, chunk_queue_lock, popped_by,
                   written_by>>
    /\ UNCHANGED <<main_vars, red_vars, file_vars>>

\* A worker that pushes its record name only when the list lacks it.
MapPushMutant(w) ==
    /\ Alive
    /\ map_pc[w] = "push"
    /\ results' = IF \E i \in 1..Len(results) : results[i] = ResultName(w)
                  THEN results ELSE Append(results, ResultName(w))
    /\ results_lock' = results_lock \ {w}
    /\ map_pc' = [map_pc EXCEPT ![w] = "lock_queue"]
    /\ UNCHANGED <<chunk_queue, map_chunk, chunk_queue_lock, popped_by, written_by>>
    /\ UNCHANGED <<main_vars, red_vars, file_vars>>

\* main.rs:75: .push(result), the guard is dropped, the loop starts over.
MapPush(w) ==
    /\ Alive
    /\ map_pc[w] = "push"
    /\ results' = Append(results, ResultName(w))
    /\ results_lock' = results_lock \ {w}
    /\ map_pc' = [map_pc EXCEPT ![w] = "lock_queue"]
    /\ UNCHANGED <<chunk_queue, map_chunk, chunk_queue_lock, popped_by, written_by>>
    /\ UNCHANGED <<main_vars, red_vars, file_vars>>

\* ---- joining a pool ----

Terminated(worker_pc) == worker_pc \in {"done", "failed"}

JoinReadyMutant(worker_pc) == TRUE

\* handle.await resolves once the task has finished.
JoinReady(worker_pc) == Terminated(worker_pc)

JoinResultMutant(worker_pc) == "Ok"

\* handle.await??: the error of a task that returned Err is returned.
JoinResult(worker_pc) == IF worker_pc = "failed" THEN "Err" ELSE "Ok"

\* A map_phase that hands the list over without awaiting its workers.
MapJoinMutant ==
    /\ pc = "map_join"
    /\ map_results' = results
    /\ pc' = "reduce_phase"
    /\ UNCHANGED <<input, num_chunks, num_map_workers, num_reduce_workers, idx, ran,
                   chunks, final_result>>
    /\ UNCHANGED <<map_vars, red_vars, file_vars>>

\* main.rs:86-88: one iteration of the loop that awaits the map handles.
MapJoin ==
    /\ pc = "map_join"
    /\ idx < num_map_workers
    /\ JoinReady(map_pc[idx])
    /\ IF JoinResult(map_pc[idx]) = "Ok"
       THEN /\ idx' = idx + 1
            /\ pc' = pc
       ELSE /\ idx' = idx
            /\ pc' = "map_phase_err"
    /\ UNCHANGED <<input, num_chunks, num_map_workers, num_reduce_workers, ran, chunks,
                   map_results, final_result>>
    /\ UNCHANGED <<map_vars, red_vars, file_vars>>

\* main.rs:90 and 19: Arc::try_unwrap(results).unwrap() panics while a worker
\* still holds its clone of results; otherwise the list goes to map_results.
MapReturn ==
    /\ pc = "map_join"
    /\ idx = num_map_workers
    /\ IF \A w \in MapWorkers : Terminated(map_pc[w])
       THEN /\ map_results' = results
            /\ pc' = "reduce_phase"
       ELSE /\ pc' = "panicked"
            /\ UNCHANGED map_results
    /\ UNCHANGED <<input, num_chunks, num_map_workers, num_reduce_workers, idx, ran,
                   chunks, final_result>>
    /\ UNCHANGED <<map_vars, red_vars, file_vars>>

\* ---- the reduce phase (main.rs:110-149) ----

\* main.rs:22 and 111-114: reduce_phase is entered with a clone of map_results.
ReducePhaseEnter ==
    /\ pc = "reduce_phase"
    /\ ran' = ran \cup {"reduce_phase"}
    /\ result_queue' = map_results
    /\ aggregate' = EmptyMap
    /\ idx' = 0
    /\ pc' = "reduce_spawn"
    /\ UNCHANGED <<input, num_chunks, num_map_workers, num_reduce_workers, chunks,
                   map_results, final_result>>
    /\ UNCHANGED <<red_pc, red_file, red_counts, result_queue_lock, aggregate_lock>>
    /\ UNCHANGED <<map_vars, file_vars>>

\* main.rs:116-142: one iteration of the loop that spawns the reduce workers.
ReduceSpawn ==
    /\ pc = "reduce_spawn"
    /\ IF idx < num_reduce_workers
       THEN /\ red_pc' = [red_pc EXCEPT ![idx] = "lock_queue"]
            /\ idx' = idx + 1
            /\ pc' = pc
       ELSE /\ idx' = 0
            /\ pc' = "reduce_join"
            /\ UNCHANGED red_pc
    /\ UNCHANGED <<input, num_chunks, num_map_workers, num_reduce_workers, ran, chunks,
                   map_results, final_result>>
    /\ UNCHANGED <<result_queue, aggregate, red_file, red_counts, result_queue_lock,
                   aggregate_lock>>
    /\ UNCHANGED <<map_vars, file_vars>>

\* main.rs:123: result_queue.lock().await
RedLockQueue(r) ==
    /\ Alive
    /\ red_pc[r] = "lock_queue"
    /\ result_queue_lock = {}
    /\ result_queue_lock' = {r}
    /\ red_pc' = [red_pc EXCEPT ![r] = "pop"]
    /\ UNCHANGED <<result_queue, aggregate, red_file, red_counts, aggregate_lock>>
    /\ UNCHANGED <<main_vars, map_vars, file_vars>>

\* A worker that starts its loop over when the queue is empty.
RedPopMutant(r) ==
    /\ Alive
    /\ red_pc[r] = "pop"
    /\ result_queue_lock' = result_queue_lock \ {r}
    /\ IF result_queue = <<>>
       THEN /\ red_file' = [red_file EXCEPT ![r] = <<>>]
            /\ red_pc' = [red_pc EXCEPT ![r] = "lock_queue"]
            /\ UNCHANGED result_queue
       ELSE /\ red_file' = [red_file EXCEPT ![r] = <<result_queue[Len(result_queue)]>>]
            /\ result_queue' = VecPopRest(result_queue)
            /\ red_pc' = [red_pc EXCEPT ![r] = "read"]
    /\ UNCHANGED <<aggregate, red_counts, aggregate_lock>>
    /\ UNCHANGED <<main_vars, map_vars, file_vars>>

\* main.rs:124-127, 135-138: queue.pop(), the guard is dropped; on None the
\* worker leaves its loop and returns Ok(()).
RedPop(r) ==
    /\ Alive
    /\ red_pc[r] = "pop"
    /\ result_queue_lock' = result_queue_lock \ {r}
    /\ IF result_queue = <<>>
       THEN /\ red_file' = [red_file EXCEPT ![r] = <<>>]
            /\ red_pc' = [red_pc EXCEPT ![r] = "done"]
            /\ UNCHANGED result_queue
       ELSE /\ red_file' = [red_file EXCEPT ![r] = <<result_queue[Len(result_queue)]>>]
            /\ result_queue' = VecPopRest(result_queue)
            /\ red_pc' = [red_pc EXCEPT ![r] = "read"]
    /\ UNCHANGED <<aggregate, red_counts, aggregate_lock>>
    /\ UNCHANGED <<main_vars, map_vars, file_vars>>

\* read_map_result: the outcomes <<result, map>>.  File::open fails when
\* there is no such file; opening and reading may fail otherwise too.
ReadMapOutcomes(files, file_name) ==
    {<<"Err", EmptyMap>>}
    \cup IF file_name \in DOMAIN files
         THEN {<<"Ok", read_map_result(files[file_name])>>}
         ELSE {}

\* main.rs:129: read_map_result(&file_name).await?
\* The first disjunct is File::open failing, the cheapest outcome of
\* ReadMapOutcomes, listed first so that enabledness is decided by it.
RedRead(r) ==
    /\ Alive
    /\ red_pc[r] = "read"
    /\ \/ /\ red_counts' = [red_counts EXCEPT ![r] = EmptyMap]
          /\ red_pc' = [red_pc EXCEPT ![r] = "failed"]
       \/ \E out \in ReadMapOutcomes(store, red_file[r][1]) :
              /\ red_counts' = [red_counts EXCEPT ![r] = out[2]]
              /\ red_pc' = [red_pc EXCEPT ![r] = IF out[1] = "Ok" THEN "lock_final"
                                                 ELSE "failed"]
    /\ UNCHANGED <<result_queue, aggregate, red_file, result_queue_lock, aggregate_lock>>
    /\ UNCHANGED <<main_vars, map_vars, file_vars>>

\* main.rs:130: final_result.lock().await
RedLockFinal(r) ==
    /\ Alive
    /\ red_pc[r] = "lock_final"
    /\ aggregate_lock = {}
    /\ aggregate_lock' = {r}
    /\ red_pc' = [red_pc EXCEPT ![r] = "merge"]
    /\ UNCHANGED <<result_queue, aggregate, red_file, red_counts, result_queue_lock>>
    /\ UNCHANGED <<main_vars, map_vars, file_vars>>

\* main.rs:131-134: the record is merged, the guard is dropped, the loop
\* starts over.
RedMerge(r) ==
    /\ Alive
    /\ red_pc[r] = "merge"
    /\ aggregate' = Merge(aggregate, red_counts[r])
    /\ aggregate_lock' = aggregate_lock \ {r}
    /\ red_pc' = [red_pc EXCEPT ![r] = "lock_queue"]
    /\ UNCHANGED <<result_queue, red_file, red_counts, result_queue_lock>>
    /\ UNCHANGED <<main_vars, map_vars, file_vars>>

\* main.rs:144-146: one iteration of the loop that awaits the reduce handles.
ReduceJoin ==
    /\ pc = "reduce_join"
    /\ idx < num_reduce_workers
    /\ JoinReady(red_pc[idx])
    /\ IF JoinResult(red_pc[idx]) = "Ok"
       THEN /\ idx' = idx + 1
            /\ pc' = pc
       ELSE /\ idx' = idx
            /\ pc' = "reduce_phase_err"
    /\ UNCHANGED <<input, num_chunks, num_map_workers, num_reduce_workers, ran, chunks,
                   map_results, final_result>>
    /\ UNCHANGED <<map_vars, red_vars, file_vars>>

\* main.rs:148 and 22: Arc::try_unwrap(final_result).unwrap() panics while a
\* worker still holds its clone of the map; otherwise the map goes to main.
ReduceReturn ==
    /\ pc = "reduce_join"
    /\ idx = num_reduce_workers
    /\ IF \A r \in ReduceWorkers : Terminated(red_pc[r])
       THEN /\ final_result' = aggregate
            /\ pc' = "write_final_result"
       ELSE /\ pc' = "panicked"
            /\ UNCHANGED final_result
    /\ UNCHANGED <<input, num_chunks, num_map_workers, num_reduce_workers, idx, ran,
                   chunks, map_results>>
    /\ UNCHANGED <<map_vars, red_vars, file_vars>>

\* ---- main, after the reduce phase ----

\* main.rs:25 and 169-181.
WriteFinalResult ==
    /\ pc = "write_final_result"
    /\ ran' = ran \cup {"write_final_result"}
    /\ \E out \in WriteFinalOutcomes(final_file, final_result) :
           /\ final_file' = out[2]
           /\ pc' = IF out[1] = "Ok" THEN "print_top_words" ELSE "write_final_result_err"
    /\ UNCHANGED <<input, num_chunks, num_map_workers, num_reduce_workers, idx, chunks,
                   map_results, final_result>>
    /\ UNCHANGED <<store, removals, eprinted>>
    /\ UNCHANGED <<map_vars, red_vars>>

\* main.rs:28 and 183-191: the ranking goes to standard output, which is
\* not part of the state.
PrintTopWords ==
    /\ pc = "print_top_words"
    /\ ran' = ran \cup {"print_top_words"}
    /\ idx' = 0
    /\ pc' = "cleanup"
    /\ UNCHANGED <<input, num_chunks, num_map_workers, num_reduce_workers, chunks,
                   map_results, final_result>>
    /\ UNCHANGED <<map_vars, red_vars, file_vars>>

CleanupAfterMutant(result) == IF result = "Ok" THEN "continue" ELSE "return_err"

\* main.rs:195-197: a failed remove_file is printed and the loop goes on.
CleanupAfter(result) == "continue"

\* main.rs:194-198: one iteration of the loop of cleanup_intermediate_files.
CleanupStep ==
    /\ pc = "cleanup"
    /\ idx < Len(map_results)
    /\ ran' = ran \cup {"cleanup_intermediate_files"}
    /\ LET file_name == map_results[idx + 1]
       IN  \E out \in RemoveOutcomes(store, file_name) :
               /\ store' = out[2]
               /\ removals' = Append(removals, file_name)
               /\ eprinted' = IF out[1] = "Ok" THEN eprinted
                              ELSE Append(eprinted, <<file_name, out[1]>>)
               /\ IF CleanupAfter(out[1]) = "continue"
                  THEN /\ idx' = idx + 1
                       /\ pc' = pc
                  ELSE /\ idx' = idx
                       /\ pc' = "cleanup_err"
    /\ UNCHANGED <<input, num_chunks, num_map_workers, num_reduce_workers, chunks,
                   map_results, final_result>>
    /\ UNCHANGED final_file
    /\ UNCHANGED <<map_vars, red_vars>>

\* A cleanup that returns after its first deletion.
CleanupReturnMutant ==
    /\ pc = "cleanup"
    /\ idx = Len(map_results) \/ idx = 1
    /\ ran' = ran \cup {"cleanup_intermediate_files"}
    /\ pc' = "exit_ok"
    /\ UNCHANGED <<input, num_chunks, num_map_workers, num_reduce_workers, idx, chunks,
                   map_results, final_result>>
    /\ UNCHANGED <<map_vars, red_vars, file_vars>>

\* main.rs:199 and 31-33: cleanup returns Ok(()), and so does main.
CleanupReturn ==
    /\ pc = "cleanup"
    /\ idx = Len(map_results)
    /\ ran' = ran \cup {"cleanup_intermediate_files"}
    /\ pc' = "exit_ok"
    /\ UNCHANGED <<input, num_chunks, num_map_workers, num_reduce_workers, idx, chunks,
                   map_results, final_result>>
    /\ UNCHANGED <<map_vars, red_vars, file_vars>>

ErrorPcs == {"split_file_err", "map_phase_err", "reduce_phase_err",
             "write_final_result_err", "cleanup_err"}

\* A main that deletes the intermediate records before it returns an error.
MainReturnErrMutant ==
    /\ pc \in ErrorPcs
    /\ pc' = "exit_err"
    /\ store' = NoFiles
    /\ UNCHANGED <<input, num_chunks, num_map_workers, num_reduce_workers, idx, ran,
                   chunks, map_results, final_result>>
    /\ UNCHANGED <<final_file, removals, eprinted>>
    /\ UNCHANGED <<map_vars, red_vars>>

\* The ? of main.rs:16-31: main returns the error of the call that failed;
\* the runtime is shut down and the workers still running are dropped.
MainReturnErr ==
    /\ pc \in ErrorPcs
    /\ pc' = "exit_err"
    /\ UNCHANGED <<input, num_chunks, num_map_workers, num_reduce_workers, idx, ran,
                   chunks, map_results, final_result>>
    /\ UNCHANGED <<map_vars, red_vars, file_vars>>

Next ==
    \/ SplitFile
    \/ MapPhaseEnter
    \/ MapSpawn
    \/ \E w \in MapWorkers : MapLockQueue(w)
    \/ \E w \in MapWorkers : MapPop(w)
    \/ \E w \in MapWorkers : MapWrite(w)
    \/ \E w \in MapWorkers : MapLockResults(w)
    \/ \E w \in MapWorkers : MapPush(w)
    \/ MapJoin
    \/ MapReturn
    \/ ReducePhaseEnter
    \/ ReduceSpawn
    \/ \E r \in ReduceWorkers : RedLockQueue(r)
    \/ \E r \in ReduceWorkers : RedPop(r)
    \/ \E r \in ReduceWorkers : RedRead(r)
    \/ \E r \in ReduceWorkers : RedLockFinal(r)
    \/ \E r \in ReduceWorkers : RedMerge(r)
    \/ ReduceJoin
    \/ ReduceReturn
    \/ WriteFinalResult
    \/ PrintTopWords
    \/ CleanupStep
    \/ CleanupReturn
    \/ MainReturnErr

Spec == Init /\ [][Next]_vars

\* The steps of main (main.rs:9-34 and the bodies of the phases it awaits).
MainNext ==
    \/ SplitFile
    \/ MapPhaseEnter
    \/ MapSpawn
    \/ MapJoin
    \/ MapReturn
    \/ ReducePhaseEnter
    \/ ReduceSpawn
    \/ ReduceJoin
    \/ ReduceReturn
    \/ WriteFinalResult
    \/ PrintTopWords
    \/ CleanupStep
    \/ CleanupReturn
    \/ MainReturnErr

\* The steps of the map task in slot w (main.rs:63-82).
MapTask(w) ==
    /\ w \in MapWorkers
    /\ \/ MapLockQueue(w)
       \/ MapPop(w)
       \/ MapWrite(w)
       \/ MapLockResults(w)
       \/ MapPush(w)

\* The steps of the reduce task in slot r (main.rs:119-138).
ReduceTask(r) ==
    /\ r \in ReduceWorkers
    /\ \/ RedLockQueue(r)
       \/ RedPop(r)
       \/ RedRead(r)
       \/ RedLockFinal(r)
       \/ RedMerge(r)

\* The runtime keeps polling main and every spawned task: a task that can
\* take a step from some point on does take one.
FairSpec ==
    /\ Init
    /\ [][Next]_vars
    /\ WF_vars(MainNext)
    /\ \A w \in 0..(MaxMapWorkers - 1) : WF_vars(MapTask(w))
    /\ \A r \in 0..(MaxReduceWorkers - 1) : WF_vars(ReduceTask(r))

\* ---- the functions on text, applied to inputs of their own ----

\* The lines of the input files split_file is applied to.
FnLineSet == { <<"a", " ", "b">>, <<"B">>, <<>> }

RECURSIVE FnInputsOf(_)
\* The texts of n lines of FnLineSet; the last line may lack its terminator.
FnInputsOf(n) ==
    IF n = 0 THEN {<<>>}
    ELSE { t \o l \o <<"\n">> : t \in FnInputsOf(n - 1), l \in FnLineSet }

FnInputs ==
    UNION { FnInputsOf(n) \cup { SubSeq(t, 1, Len(t) - 1) : t \in FnInputsOf(n) \ {<<>>} } :
            n \in 0..MaxFnLines }

\* The maps written as a record: tokens without whitespace, counts >= 0.
RecordTokens == { <<"a">>, <<"b", "b">>, <<"7">> }
RecordCounts == {0, 1, 12}
RecordMaps == UNION { [S -> RecordCounts] : S \in SUBSET RecordTokens }

\* The lines of the records read back: well-formed ones, and lines with a
\* count that is no number, with a negative count, with one field, with
\* three fields.
RawLineSet == { <<"a", " ", "1">>, <<"b", " ", "+", "2">>, <<"a", " ", "x">>,
                <<"b", " ", "-", "1">>, <<"c">>, <<"a", " ", "3", " ", "4">> }

RECURSIVE RawRecordsOf(_)
RawRecordsOf(n) ==
    IF n = 0 THEN {<<>>}
    ELSE { t \o l \o <<"\n">> : t \in RawRecordsOf(n - 1), l \in RawLineSet }

RawRecords == UNION { RawRecordsOf(n) : n \in 0..MaxRecordLines }

InitFn ==
    /\ pc \in {"split_file", "fn_record"}
    /\ input \in IF pc = "split_file" THEN FnInputs ELSE {<<>>}
    /\ num_chunks \in IF pc = "split_file" THEN 1..MaxChunks ELSE {1}
    /\ num_map_workers = 1
    /\ num_reduce_workers = 1
    /\ idx = 0
    /\ ran = {}
    /\ chunks = <<>>
    /\ map_results = <<>>
    /\ final_result = EmptyMap
    /\ chunk_queue = <<>>
    /\ results = <<>>
    /\ map_pc = [w \in {0} |-> "unspawned"]
    /\ map_chunk = [w \in {0} |-> <<>>]
    /\ chunk_queue_lock = {}
    /\ results_lock = {}
    /\ popped_by = <<>>
    /\ written_by = [w \in {0} |-> <<>>]
    /\ result_queue = <<>>
    /\ aggregate = EmptyMap
    /\ red_pc = [r \in {0} |-> "unspawned"]
    /\ red_file = [r \in {0} |-> <<>>]
    /\ red_counts = [r \in {0} |-> EmptyMap]
    /\ result_queue_lock = {}
    /\ aggregate_lock = {}
    /\ store = NoFiles
    /\ final_file = <<>>
    /\ removals = <<>>
    /\ eprinted = <<>>

\* write_map_result (main.rs:102-108) applied to a map, kept in final_result.
FnWriteRecord ==
    /\ pc = "fn_record"
    /\ \E word_counts \in RecordMaps :
           \E out \in WriteMapOutcomes(store, ResultName(0), word_counts) :
               /\ final_result' = word_counts
               /\ store' = out[2]
               /\ pc' = IF out[1] = "Ok" THEN "fn_written" ELSE "fn_write_err"
    /\ UNCHANGED <<input, num_chunks, num_map_workers, num_reduce_workers, idx, ran,
                   chunks, map_results>>
    /\ UNCHANGED <<final_file, removals, eprinted>>
    /\ UNCHANGED <<map_vars, red_vars>>

\* A record file that holds arbitrary lines.
FnPutRecord ==
    /\ pc = "fn_record"
    /\ \E text \in RawRecords : store' = FileCreate(store, ResultName(0), text)
    /\ pc' = "fn_raw"
    /\ UNCHANGED <<input, num_chunks, num_map_workers, num_reduce_workers, idx, ran,
                   chunks, map_results, final_result>>
    /\ UNCHANGED <<final_file, removals, eprinted>>
    /\ UNCHANGED <<map_vars, red_vars>>

\* read_map_result (main.rs:151-167) applied to the record, the map read is
\* kept in red_counts[0].
FnReadRecord ==
    /\ pc \in {"fn_written", "fn_raw"}
    /\ \E out \in ReadMapOutcomes(store, ResultName(0)) :
           /\ red_counts' = [red_counts EXCEPT ![0] = out[2]]
           /\ pc' = IF out[1] # "Ok" THEN "fn_read_err"
                    ELSE IF pc = "fn_written" THEN "fn_read_written" ELSE "fn_read_raw"
    /\ UNCHANGED <<result_queue, aggregate, red_pc, red_file, result_queue_lock,
                   aggregate_lock>>
    /\ UNCHANGED <<input, num_chunks, num_map_workers, num_reduce_workers, idx, ran,
                   chunks, map_results, final_result>>
    /\ UNCHANGED <<map_vars, file_vars>>

NextFn ==
    \/ SplitFile
    \/ FnWriteRecord
    \/ FnPutRecord
    \/ FnReadRecord

SpecFn == InitFn /\ [][NextFn]_vars

\* ---- properties ----

\* map_phase has returned Ok.
MapPhaseOk == pc = "reduce_phase" \/ "reduce_phase" \in ran

\* reduce_phase has returned Ok.
ReducePhaseOk == pc = "write_final_result" \/ "write_final_result" \in ran

\* write_final_result has returned Ok.
WriteFinalOk == pc = "print_top_words" \/ "print_top_words" \in ran

\* reduce_phase has returned Ok and cleanup has not begun: the records are
\* those the reduce workers read.
ReducedNotCleaned ==
    pc \in {"write_final_result", "write_final_result_err", "print_top_words"}

Distinct(seq) == \A i, j \in 1..Len(seq) : i # j => seq[i] # seq[j]

RECURSIVE SumOver(_, _, _)
\* The sum of the counts of word over the records named by names[1..n].
SumOver(names, n, word) ==
    IF n = 0 THEN 0
    ELSE SumOver(names, n - 1, word) + Get(read_map_result(store[names[n]]), word)

RecordWords(names) == UNION { DOMAIN read_map_result(store[names[i]]) : i \in 1..Len(names) }

\* C1: when the run succeeds, the aggregate returned by reduce_phase maps
\* every token of the corpus to its number of occurrences in the whole
\* input (it is count_words of the input), and so does the final artifact.
C1_TotalCounts ==
    /\ ReducePhaseOk => final_result = count_words(input)
    /\ WriteFinalOk =>
           \A word \in DOMAIN count_words(input) :
               Get(read_map_result(final_file[1]), word) = count_words(input)[word]

\* C2: when the names handed to reduce_phase are pairwise distinct, the
\* aggregate it returns holds, for each token, the sum of the token's counts
\* over the records, whatever the number of reduce workers and their
\* interleaving; no token is added and no update is lost.
C2_MergeIsSum ==
    (ReducedNotCleaned /\ Distinct(map_results)) =>
        /\ DOMAIN final_result = RecordWords(map_results)
        /\ \A word \in DOMAIN final_result :
               final_result[word] = SumOver(map_results, Len(map_results), word)

C2_Witness ==
    /\ ReducedNotCleaned
    /\ Distinct(map_results)
    /\ Len(map_results) = 2
    /\ num_reduce_workers = 2
    /\ \E word \in DOMAIN final_result : final_result[word] = 2

\* C3: no chunk is ever popped by two map workers, and when map_phase has
\* returned Ok every chunk has been popped by exactly one worker, the queue
\* is empty and no worker is left with a chunk it has not finished.
C3_ChunkOnce ==
    /\ \A k \in DOMAIN popped_by : Len(popped_by[k]) <= 1
    /\ MapPhaseOk =>
           /\ DOMAIN popped_by = 1..num_chunks
           /\ \A k \in DOMAIN popped_by : Len(popped_by[k]) = 1
           /\ chunk_queue = <<>>
           /\ \A w \in MapWorkers : map_pc[w] = "done"
           /\ Len(results) = num_chunks

C3_Witness ==
    /\ MapPhaseOk
    /\ num_chunks = 2
    /\ popped_by[1] # popped_by[2]

\* C4: whenever reduce_phase has been entered or a reduce worker exists,
\* every map worker has terminated.
C4_PhasesSequential ==
    (pc = "reduce_phase" \/ "reduce_phase" \in ran
        \/ \E r \in ReduceWorkers : red_pc[r] # "unspawned")
    => \A w \in MapWorkers : map_pc[w] \in {"done", "failed"}

C4_Witness ==
    /\ num_map_workers = 2
    /\ num_reduce_workers = 2
    /\ \A r \in ReduceWorkers : red_pc[r] = "read"

\* C5: when map_phase or reduce_phase returns an error, every worker of
\* that phase has terminated.
C5_JoinWaitsForAll ==
    /\ pc = "map_phase_err" => \A w \in MapWorkers : map_pc[w] \in {"done", "failed"}
    /\ pc = "reduce_phase_err" => \A r \in ReduceWorkers : red_pc[r] \in {"done", "failed"}

\* C6: once a map worker has failed, map_phase does not return Ok,
\* reduce_phase and write_final_result are never called and the run does not
\* succeed; once a reduce worker has failed, reduce_phase does not return Ok,
\* write_final_result is never called and the run does not succeed; a run
\* that succeeds had every worker of both pools return Ok and the final
\* artifact written.
C6_NoPartialResult ==
    /\ (\E w \in MapWorkers : map_pc[w] = "failed") =>
           /\ ~MapPhaseOk
           /\ ran \cap {"reduce_phase", "write_final_result"} = {}
           /\ pc # "exit_ok"
    /\ (\E r \in ReduceWorkers : red_pc[r] = "failed") =>
           /\ ~ReducePhaseOk
           /\ "write_final_result" \notin ran
           /\ pc # "exit_ok"
    /\ pc = "exit_ok" =>
           /\ \A w \in MapWorkers : map_pc[w] = "done"
           /\ \A r \in ReduceWorkers : red_pc[r] = "done"
           /\ WriteFinalOk

C6_Witness ==
    /\ pc = "exit_err"
    /\ \E r \in ReduceWorkers : red_pc[r] = "failed"
    /\ \E w \in MapWorkers : Len(popped_by[1]) = 1 /\ map_pc[w] = "done"

\* C7: the list a successful map_phase returns holds each written record
\* name once, so it has at most num_map_workers entries.
C7_ResultsIsSet ==
    MapPhaseOk =>
        /\ Distinct(map_results)
        /\ Len(map_results) <= num_map_workers
        /\ pc = "reduce_phase" => {map_results[i] : i \in 1..Len(map_results)} = DOMAIN store

\* The names map_<k>.txt of the worker slots k = 0 .. num_map_workers - 1.
SlotNames ==
    { <<"m", "a", "p", "_">> \o FormatUsize(k) \o <<".", "t", "x", "t">> :
        k \in 0..(num_map_workers - 1) }

\* C8: in every state, at most num_map_workers intermediate records exist
\* and each is named after a worker slot 0 .. num_map_workers - 1.
C8_RecordsPerSlot ==
    /\ Cardinality(DOMAIN store) <= num_map_workers
    /\ DOMAIN store \subseteq SlotNames

C8_Witness ==
    /\ MapPhaseOk
    /\ num_chunks > num_map_workers
    /\ DOMAIN store = SlotNames

\* No remove_file failed on a file that existed.
DeletionsSucceeded == \A i \in 1..Len(eprinted) : eprinted[i][2] = "NotFound"

\* C9: after a successful run in which no deletion of an existing record
\* failed, no intermediate record exists.
C9_CleanupPost == (pc = "exit_ok" /\ DeletionsSucceeded) => DOMAIN store = {}

C9_Witness ==
    /\ pc = "exit_ok"
    /\ DeletionsSucceeded
    /\ Len(removals) = 2
    /\ removals[1] # removals[2]

\* C10: cleanup calls remove_file on every name of its list, in order,
\* whatever the deletions return, and a run that has reached cleanup never
\* ends in an error.
C10_DeletionErrorsIgnored ==
    /\ pc = "exit_ok" => removals = map_results
    /\ "cleanup_intermediate_files" \in ran => pc \in {"cleanup", "exit_ok"}
    /\ pc = "cleanup" => removals = SubSeq(map_results, 1, idx)

C10_Witness ==
    /\ pc = "exit_ok"
    /\ Len(removals) = 2
    /\ Len(eprinted) >= 1
    /\ eprinted[1] = <<removals[1], "Err">>
    /\ DOMAIN store # {}

\* The lines of the input: split_file reads them with BufReader::lines.
InputLines == Lines(input)

\* The number of the lines of index i < total with i mod n = k.
LinesInPartition(total, n, k) == Cardinality({ i \in 0..(total - 1) : i % n = k })

\* C11: split_file returns num_chunks partitions; partition k is, in order,
\* the lines of zero-based index k, k + C, k + 2C, ... each followed by its
\* terminator, and no other line: every line is in exactly one partition,
\* and a partition whose index is not below the number of lines is empty.
C11_RoundRobin ==
    pc = "map_phase" =>
        /\ Len(chunks) = num_chunks
        /\ \A k \in 0..(num_chunks - 1) :
               /\ chunks[k + 1] =
                      Flatten([j \in 1..LinesInPartition(Len(InputLines), num_chunks, k) |->
                                 InputLines[k + (j - 1) * num_chunks + 1] \o <<"\n">>])
               /\ k >= Len(InputLines) => chunks[k + 1] = <<>>

C11_Witness ==
    /\ pc = "map_phase"
    /\ num_chunks = 2
    /\ Len(InputLines) = 3
    /\ InputLines[1] # InputLines[3]
    /\ Len(Lines(chunks[1])) = 2

\* C12: a map of tokens without whitespace to counts >= 0 that is written
\* with write_map_result and read back with read_map_result is read as the
\* map that was written.
C12_RoundTrip == pc = "fn_read_written" => red_counts[0] = final_result

C12_Witness ==
    /\ pc = "fn_read_written"
    /\ DOMAIN final_result = RecordTokens
    /\ \E w \in DOMAIN final_result : final_result[w] >= 10
    /\ \E w \in DOMAIN final_result : final_result[w] = 0

\* A line of two fields whose second is a number >= 0.
WellFormed(line) ==
    LET parts == split_whitespace(line)
    IN  Len(parts) = 2 /\ ParseUsize(parts[2]) # <<>>

WellFormedLines(text) == SelectSeq(Lines(text), WellFormed)

\* The map the well-formed lines of a text stand for: each key with the
\* count of the last of its lines.
WellFormedMap(text) ==
    LET wf == WellFormedLines(text)
        keys == { split_whitespace(wf[i])[1] : i \in 1..Len(wf) }
        last(key) == CHOOSE i \in 1..Len(wf) :
                        /\ split_whitespace(wf[i])[1] = key
                        /\ \A j \in (i + 1)..Len(wf) : split_whitespace(wf[j])[1] # key
    IN  [key \in keys |-> ParseUsize(split_whitespace(wf[last(key)])[2])[1]]

\* C13: whatever lines a record holds, reading it can succeed, and the map
\* read is the map of its well-formed lines alone.
C13_MalformedSkipped ==
    /\ pc = "fn_raw" =>
           \E out \in ReadMapOutcomes(store, ResultName(0)) : out[1] = "Ok"
    /\ pc = "fn_read_raw" => red_counts[0] = WellFormedMap(store[ResultName(0)])

C13_Witness ==
    /\ pc = "fn_read_raw"
    /\ Len(Lines(store[ResultName(0)])) = 2
    /\ Len(WellFormedLines(store[ResultName(0)])) = 1
    /\ red_counts[0] # EmptyMap

\* Each mutex has at most one holder.
LocksExclusive ==
    /\ Cardinality(chunk_queue_lock) <= 1
    /\ Cardinality(results_lock) <= 1
    /\ Cardinality(result_queue_lock) <= 1
    /\ Cardinality(aggregate_lock) <= 1

\* C14: the mutex of a work queue is held exactly by the worker that is
\* popping, the mutex of the result list by the worker that is pushing, the
\* mutex of the aggregate by the worker that is merging a record it has
\* read; a worker that writes or reads a record holds none of them and no
\* worker holds two of them.
C14_LockDiscipline ==
    /\ LocksExclusive
    /\ chunk_queue_lock = { w \in MapWorkers : map_pc[w] = "pop" }
    /\ results_lock = { w \in MapWorkers : map_pc[w] = "push" }
    /\ result_queue_lock = { r \in ReduceWorkers : red_pc[r] = "pop" }
    /\ aggregate_lock = { r \in ReduceWorkers : red_pc[r] = "merge" }
    /\ \A w \in MapWorkers :
           map_pc[w] = "write" => w \notin chunk_queue_lock \cup results_lock
    /\ \A r \in ReduceWorkers :
           /\ red_pc[r] = "read" => r \notin result_queue_lock \cup aggregate_lock
           /\ red_pc[r] = "merge" => red_file[r] # <<>>
    /\ chunk_queue_lock \cap results_lock = {}
    /\ result_queue_lock \cap aggregate_lock = {}

C14_Witness ==
    /\ num_map_workers = 2
    /\ map_pc[0] = "write"
    /\ map_pc[1] = "pop"
    /\ chunk_queue_lock = {1}

\* An I/O operation other than a deletion has failed.
IoFailed ==
    \/ pc \in ErrorPcs \cup {"exit_err"}
    \/ \E w \in MapWorkers : map_pc[w] = "failed"
    \/ \E r \in ReduceWorkers : red_pc[r] = "failed"

\* The pipeline has run to completion: main has returned Ok after the final
\* write and the cleanup, every worker has left its loop, both queues are empty.
Completed ==
    /\ pc = "exit_ok"
    /\ \A w \in MapWorkers : map_pc[w] = "done"
    /\ \A r \in ReduceWorkers : red_pc[r] = "done"
    /\ chunk_queue = <<>>
    /\ result_queue = <<>>
    /\ WriteFinalOk
    /\ removals = map_results

\* C15: under fair scheduling a run in which no I/O operation fails reaches
\* completion (final write and cleanup done, main returns Ok), and whenever
\* a pool has joined, every worker of it has left its loop and the pool's
\* work queue is empty.
C15_Termination ==
    /\ [](MapPhaseOk => /\ chunk_queue = <<>>
                        /\ \A w \in MapWorkers : map_pc[w] = "done")
    /\ [](ReducePhaseOk => /\ result_queue = <<>>
                           /\ \A r \in ReduceWorkers : red_pc[r] = "done")
    /\ <>(IoFailed \/ Completed)

C15_Witness ==
    /\ pc = "exit_ok"
    /\ ~IoFailed
    /\ num_chunks = 2
    /\ num_map_workers = 2
    /\ num_reduce_workers = 2
    /\ popped_by[1] # popped_by[2]

\* The last chunk of which map worker w wrote a record.
LastChunkOf(w) == written_by[w][Len(written_by[w])]

\* C16: when map_phase has returned Ok and nothing has been deleted, the
\* record of each worker slot that handled a chunk is count_words of the
\* last chunk it handled, written line by line, and nothing else; a slot
\* that handled no chunk has no record.
C16_LastChunkSurvives ==
    (MapPhaseOk /\ removals = <<>>) =>
        \A w \in MapWorkers :
            IF written_by[w] = <<>>
            THEN ResultName(w) \notin DOMAIN store
            ELSE LET word_counts == count_words(chunks[LastChunkOf(w)])
                 IN  /\ ResultName(w) \in DOMAIN store
                     /\ read_map_result(store[ResultName(w)]) = word_counts
                     /\ \E o \in Orderings(DOMAIN word_counts) :
                            store[ResultName(w)] =
                                RecordText(word_counts, o, Cardinality(DOMAIN word_counts))

C16_Witness ==
    /\ MapPhaseOk
    /\ removals = <<>>
    /\ \E w \in MapWorkers :
           /\ Len(written_by[w]) = 2
           /\ DOMAIN count_words(chunks[written_by[w][1]])
                  \ DOMAIN count_words(chunks[written_by[w][2]]) # {}

\* C17: after write_final_result has returned Ok, the final artifact holds
\* one line for each token of the aggregate and nothing else.
C17_FinalOverwritten ==
    WriteFinalOk =>
        /\ final_file # <<>>
        /\ \E o \in Orderings(DOMAIN final_result) :
               final_file[1] = RecordText(final_result, o, Cardinality(DOMAIN final_result))

\* The number of the entries of seq that are x.
Occurrences(seq, x) == Cardinality({ i \in 1..Len(seq) : seq[i] = x })

\* The map workers that wrote a record.
Writers == { w \in MapWorkers : written_by[w] # <<>> }

RECURSIVE SlotSum(_, _)
\* Over the worker slots 0 .. n - 1: the number of chunks the slot handled
\* times the count of word in the last of them.
SlotSum(n, word) ==
    IF n = 0 THEN 0
    ELSE SlotSum(n - 1, word)
         + IF written_by[n - 1] = <<>> THEN 0
           ELSE Len(written_by[n - 1]) * Get(count_words(chunks[LastChunkOf(n - 1)]), word)

\* C18: the list a successful map_phase returns has one entry for each
\* chunk, the name of a worker slot as often as the slot handled chunks; the
\* aggregate reduce_phase then returns counts a token, for each slot, as
\* often as the slot handled chunks times its count in the last of them.
C18_OncePerChunk ==
    /\ MapPhaseOk =>
           /\ Len(map_results) = num_chunks
           /\ \A w \in MapWorkers :
                  Occurrences(map_results, ResultName(w)) = Len(written_by[w])
    /\ ReducePhaseOk =>
           /\ DOMAIN final_result =
                  UNION { DOMAIN count_words(chunks[LastChunkOf(w)]) : w \in Writers }
           /\ \A word \in DOMAIN final_result :
                  final_result[word] = SlotSum(num_map_workers, word)

C18_Witness ==
    /\ ReducePhaseOk
    /\ num_map_workers = 2
    /\ \E w \in MapWorkers : Len(written_by[w]) = 2
    /\ \E word \in DOMAIN final_result : final_result[word] = 2

\* C19: main never panics in Arc::try_unwrap: when the loop that awaits the
\* handles of a phase is over, and ever after the phase has returned Ok,
\* every worker of the phase has terminated, and the value the phase
\* returned is what the shared list or map still holds.
C19_SoleOwner ==
    /\ pc # "panicked"
    /\ (pc = "map_join" /\ idx = num_map_workers) =>
           \A w \in MapWorkers : map_pc[w] \in {"done", "failed"}
    /\ (pc = "reduce_join" /\ idx = num_reduce_workers) =>
           \A r \in ReduceWorkers : red_pc[r] \in {"done", "failed"}
    /\ MapPhaseOk =>
           /\ \A w \in MapWorkers : map_pc[w] \in {"done", "failed"}
           /\ results = map_results
    /\ ReducePhaseOk =>
           /\ \A r \in ReduceWorkers : red_pc[r] \in {"done", "failed"}
           /\ aggregate = final_result

C19_Witness ==
    /\ pc = "write_final_result"
    /\ num_map_workers = 2
    /\ num_reduce_workers = 2
    /\ Len(map_results) = 2
    /\ final_result # EmptyMap

\* C20: when a call of main has returned an error, cleanup has not run and
\* never runs, nothing has been removed, and the record of every map worker
\* that wrote one exists, also when the run has ended.
C20_NoCleanupOnError ==
    pc \in ErrorPcs \cup {"exit_err"} =>
        /\ "cleanup_intermediate_files" \notin ran
        /\ removals = <<>>
        /\ \A w \in MapWorkers :
               written_by[w] # <<>> => ResultName(w) \in DOMAIN store

C20_Witness ==
    /\ pc = "exit_err"
    /\ "write_final_result" \in ran
    /\ num_map_workers = 2
    /\ Cardinality(DOMAIN store) = 2

====
